---------------------------- MODULE Spec2Model ----------------------------
(***************************************************************************)
(* A model of two pieces of PyDM:                                          *)
(*                                                                         *)
(*   pydm/widgets/multi_axis_viewbox.py   MultiAxisViewBox, the top-level   *)
(*       view box of a multi-axis plot and the views stacked under it;      *)
(*   pydm/data_plugins/epics_plugin.py    the import-time choice of the     *)
(*       backend behind the "ca" protocol.                                  *)
(*                                                                         *)
(* Every handler is one action.  What a handler does to objects outside    *)
(* the repository (the pyqtgraph ViewBox superclass, the Qt event, the     *)
(* signals) is recorded, in program order, in the variable log, which      *)
(* holds the trace of the handler that ran last.                           *)
(***************************************************************************)
EXTENDS Integers, Sequences, FiniteSets

\* Bounds of the model.
NStacked == 1       \* views that can be stacked under the top-level view
MaxHist == 2        \* longest zoom history a view starts with

Top == 0
Stacked == 1..NStacked

\* Rectangles a view's geometry is drawn from.
Geoms == {"g0", "g1"}
\* Events (objects handed to wheelEvent and mouseDragEvent).
Events == {"ev1", "ev2"}
\* The axis argument of wheelEvent and mouseDragEvent.
Axes == {"None", "0", "1"}
\* Arguments scaleHistory is called with (1, -1, 0 are the documented ones).
Deltas == {-2, -1, 0, 1, 2}
\* Key presses: the text and the key of the QKeyEvent.
KeyEvents ==
    { [text |-> "-", key |-> "Key_Minus"],
      [text |-> "+", key |-> "Key_Plus"],
      [text |-> "=", key |-> "Key_Equal"],
      [text |-> "BS", key |-> "Key_Backspace"],
      [text |-> "", key |-> "Key_Backspace"],
      [text |-> "a", key |-> "Key_A"],
      [text |-> "", key |-> "Key_Shift"] }

\* The backends and what PYDM_EPICS_LIB can hold ("<unset>": not set).
Backends == {"PSPPlugin", "PyEPICSPlugin"}
PluginModules == {"psp_plugin", "pyepics_plugin"}
EnvValues == {"<unset>", "pyepics", "pyca", "", "PYCA", "epics"}
ImportResults == {"ok", "ImportError", "OtherError"}

VARIABLES
    stackedViews,       \* the top-level view's WeakSet of stacked views
    connected,          \* stacked views whose handlers are slots of the top-level view's signals
    axHistory,          \* per live view: the recorded view rectangles
    axHistoryPointer,   \* per live view: the pointer into axHistory, -1 = auto-range
    geometry,           \* per live view: its geometry
    last,               \* the handler that ran last, with its arguments
    evAccepted,         \* the accepted flag of the key event handled last
    log,                \* the trace of the handler that ran last
    environ,            \* PYDM_EPICS_LIB in the process environment
    EPICS_LIB,          \* os.getenv("PYDM_EPICS_LIB") as the load read it
    importResult,       \* per backend module: what importing it does
    EPICSPlugin,        \* the alias, "<unbound>" until assigned
    protocol,           \* per backend class: its protocol attribute
    loadState,          \* "unloaded", "loaded", or the error the load ended with
    imports,            \* the imports attempted during the load, in order
    assignments         \* how often the load assigned EPICSPlugin

viewVars == <<stackedViews, connected, axHistory, axHistoryPointer, geometry,
              last, evAccepted, log>>
pluginVars == <<environ, EPICS_LIB, importResult, EPICSPlugin, protocol, loadState,
                imports, assignments>>
vars == <<viewVars, pluginVars>>

Live == {Top} \cup stackedViews

----------------------------------------------------------------------------
\* Trace entries.

Entry(op, v) ==
    [op |-> op, view |-> v, d |-> 0, rect |-> 0, ev |-> "-", axis |-> "-"]

NoHandler == [h |-> "-", d |-> 0, text |-> "-", key |-> "-", ev |-> "-", axis |-> "-"]

\* The slots of a signal of view v, in the order they run: the handlers of
\* the connected stacked views for the top-level view, none for a stacked view.
RECURSIVE Ascending(_)
Ascending(S) ==
    IF S = {} THEN <<>>
    ELSE LET m == CHOOSE x \in S : \A y \in S : x <= y
         IN  <<m>> \o Ascending(S \ {m})

Slots(v) == IF v = Top THEN Ascending(connected) ELSE <<>>

RECURSIVE Concat(_)
Concat(ss) == IF ss = <<>> THEN <<>> ELSE Head(ss) \o Concat(Tail(ss))

----------------------------------------------------------------------------
\* scaleHistory

\* NewPointer without the test of the upper end.
NewPointerUnclamped(hist, p, d) ==
    IF Len(hist) # 0
    THEN IF d = -1 /\ p # -1 THEN p - 1
         ELSE IF d = 1 THEN p + 1
         ELSE IF d = 0 THEN -1
         ELSE p
    ELSE p

\* NewPointer taking 0, not -1, for the lower end.
NewPointerStopsAtZero(hist, p, d) ==
    IF Len(hist) # 0
    THEN IF d = -1 /\ p # 0 /\ p # -1 THEN p - 1
         ELSE IF d = 1 /\ p # Len(hist) - 1 THEN p + 1
         ELSE IF d = 0 THEN -1
         ELSE p
    ELSE p

\* The pointer after lines 115-121, from history hist, pointer p, argument d.
NewPointer(hist, p, d) ==
    IF Len(hist) # 0
    THEN IF d = -1 /\ p # -1 THEN p - 1
         ELSE IF d = 1 /\ p # Len(hist) - 1 THEN p + 1
         ELSE IF d = 0 THEN -1
         ELSE p
    ELSE p

\* Whether lines 115-121 assign the pointer.
WritesPointer(hist, p, d) ==
    /\ Len(hist) # 0
    /\ \/ d = -1 /\ p # -1
       \/ d = 1 /\ p # Len(hist) - 1
       \/ d = 0

\* Lines 123-126: the range shown for pointer p.  Python's hist[p] is the
\* entry p + 1 of the sequence, counts from the end for a negative p, and
\* raises IndexError outside -len(hist) .. len(hist) - 1.
ApplyPointer(v, hist, p) ==
    IF p = -1
    THEN <<Entry("enableAutoRange", v)>>
    ELSE IF 0 <= p /\ p < Len(hist)
    THEN <<[Entry("showAxRect", v) EXCEPT !.rect = hist[p + 1]]>>
    ELSE IF -Len(hist) <= p /\ p < 0
    THEN <<[Entry("showAxRect", v) EXCEPT !.rect = hist[Len(hist) + p + 1]]>>
    ELSE <<Entry("IndexError", v)>>

\* HistoryBody without the test of line 115: the range is applied even
\* when nothing has been recorded.
HistoryBodyNoLenTest(v, d) ==
    LET hist == axHistory[v]
        p == axHistoryPointer[v]
        q == NewPointer(hist, p, d)
    IN  (IF WritesPointer(hist, p, d)
         THEN <<[Entry("axHistoryPointer=", v) EXCEPT !.d = q]>>
         ELSE <<>>)
        \o ApplyPointer(v, hist, q)

\* HistoryBody applying the pointer it read before lines 116-121 moved it.
HistoryBodyStale(v, d) ==
    LET hist == axHistory[v]
        p == axHistoryPointer[v]
        q == NewPointer(hist, p, d)
    IN  IF Len(hist) # 0
        THEN (IF WritesPointer(hist, p, d)
              THEN <<[Entry("axHistoryPointer=", v) EXCEPT !.d = q]>>
              ELSE <<>>)
             \o ApplyPointer(v, hist, p)
        ELSE <<>>

\* Lines 115-126 for view v: the pointer assignment, then the range.
HistoryBody(v, d) ==
    LET hist == axHistory[v]
        p == axHistoryPointer[v]
        q == NewPointer(hist, p, d)
    IN  IF Len(hist) # 0
        THEN (IF WritesPointer(hist, p, d)
              THEN <<[Entry("axHistoryPointer=", v) EXCEPT !.d = q]>>
              ELSE <<>>)
             \o ApplyPointer(v, hist, q)
        ELSE <<>>

\* EmitHistoryChanged moved under the test of line 115.
EmitOnlyWithHistory(v, d) ==
    IF Len(axHistory[v]) # 0
    THEN <<[Entry("sigHistoryChanged.emit", v) EXCEPT !.d = d]>>
    ELSE <<>>

\* Line 113: the emission.
EmitHistoryChanged(v, d) ==
    <<[Entry("sigHistoryChanged.emit", v) EXCEPT !.d = d]>>

\* scaleHistory(d) of a view with no slots on its signal.
ScaleHistoryLeaf(v, d) ==
    <<[Entry("scaleHistory", v) EXCEPT !.d = d]>>
    \o EmitHistoryChanged(v, d)
    \o HistoryBody(v, d)

\* The trace of scaleHistory(d) of view v: the emission runs the slots
\* (scaleHistory of each connected view) before the body goes on.
ScaleHistoryTrace(v, d) ==
    <<[Entry("scaleHistory", v) EXCEPT !.d = d]>>
    \o EmitHistoryChanged(v, d)
    \o Concat([i \in 1..Len(Slots(v)) |-> ScaleHistoryLeaf(Slots(v)[i], d)])
    \o HistoryBody(v, d)

\* Reached with the signal forwarded to no slot.
ReachedSelfOnly(v) == {v}

\* The views whose scaleHistory runs when view v's does.
Reached(v) == {v} \cup {Slots(v)[i] : i \in 1..Len(Slots(v))}

\* The pointers after scaleHistory(d) of view v.
ScaleHistoryPointers(v, d) ==
    [w \in Live |->
        IF w \in Reached(v)
        THEN NewPointer(axHistory[w], axHistoryPointer[w], d)
        ELSE axHistoryPointer[w]]

\* scaleHistory dropping what was recorded after the pointer, as recording
\* a new rectangle does.
scaleHistoryTruncating(d) ==
    /\ log' = ScaleHistoryTrace(Top, d)
    /\ axHistoryPointer' = ScaleHistoryPointers(Top, d)
    /\ axHistory' = [w \in Live |->
                        IF w \in Reached(Top)
                        THEN SubSeq(axHistory[w], 1, ScaleHistoryPointers(Top, d)[w] + 1)
                        ELSE axHistory[w]]
    /\ last' = [NoHandler EXCEPT !.h = "scaleHistory", !.d = d]
    /\ evAccepted' = "-"
    /\ UNCHANGED <<stackedViews, connected, geometry, pluginVars>>

\* A call of the top-level view's scaleHistory(d).
scaleHistory(d) ==
    /\ log' = ScaleHistoryTrace(Top, d)
    /\ axHistoryPointer' = ScaleHistoryPointers(Top, d)
    /\ last' = [NoHandler EXCEPT !.h = "scaleHistory", !.d = d]
    /\ evAccepted' = "-"
    /\ UNCHANGED <<stackedViews, connected, axHistory, geometry, pluginVars>>

----------------------------------------------------------------------------
\* keyPressEvent

\* KeyCalls with '=' left out of the forward keys.
KeyCallsNoEquals(ev) ==
    IF ev.text = "-" THEN <<-1>>
    ELSE IF ev.text \in {"+"} THEN <<1>>
    ELSE IF ev.key = "Key_Backspace" THEN <<0>>
    ELSE <<>>

\* Lines 92-99: the scaleHistory calls a key press makes.
KeyCalls(ev) ==
    IF ev.text = "-" THEN <<-1>>
    ELSE IF ev.text \in {"+", "="} THEN <<1>>
    ELSE IF ev.key = "Key_Backspace" THEN <<0>>
    ELSE <<>>

\* Lines 91-99: the event's flag when the handler returns.
KeyAccepted(ev) ==
    IF ev.text = "-" THEN "accepted"
    ELSE IF ev.text \in {"+", "="} THEN "accepted"
    ELSE IF ev.key = "Key_Backspace" THEN "accepted"
    ELSE "ignored"

keyPressEvent(ev) ==
    LET calls == KeyCalls(ev)
    IN  /\ log' = <<Entry("ev.accept", Top)>>
                  \o (IF calls = <<>>
                      THEN <<Entry("ev.ignore", Top)>>
                      ELSE ScaleHistoryTrace(Top, calls[1]))
        /\ axHistoryPointer' =
              IF calls = <<>> THEN axHistoryPointer
              ELSE ScaleHistoryPointers(Top, calls[1])
        /\ evAccepted' = KeyAccepted(ev)
        /\ last' = [NoHandler EXCEPT !.h = "keyPressEvent", !.text = ev.text, !.key = ev.key]
        /\ UNCHANGED <<stackedViews, connected, axHistory, geometry, pluginVars>>

----------------------------------------------------------------------------
\* wheelEvent, mouseDragEvent

\* Propagates with the test inverted.
PropagatesOnAxis(axis) == axis # "None"

\* Propagates with the test of the axis dropped: every event is emitted.
PropagatesAlways(axis) == TRUE

\* Propagates with no emission at all.
PropagatesNever(axis) == FALSE

\* Whether the handler emits its signal for this axis (lines 55 and 71).
Propagates(axis) == axis = "None"

\* The handler of view v: the emission, if any, then the superclass's handler.
PointerHandlerLeaf(name, sig, v, ev, axis) ==
    (IF Propagates(axis)
     THEN <<[Entry(sig, v) EXCEPT !.ev = ev, !.axis = axis]>>
     ELSE <<>>)
    \o <<[Entry(name, v) EXCEPT !.ev = ev, !.axis = axis]>>

PointerHandlerTrace(name, sig, v, ev, axis) ==
    (IF Propagates(axis)
     THEN <<[Entry(sig, v) EXCEPT !.ev = ev, !.axis = axis]>>
          \o Concat([i \in 1..Len(Slots(v)) |->
                        PointerHandlerLeaf(name, sig, Slots(v)[i], ev, axis)])
     ELSE <<>>)
    \o <<[Entry(name, v) EXCEPT !.ev = ev, !.axis = axis]>>

wheelEvent(ev, axis) ==
    /\ log' = PointerHandlerTrace("super.wheelEvent", "sigMouseWheelZoomed.emit", Top, ev, axis)
    /\ last' = [NoHandler EXCEPT !.h = "wheelEvent", !.ev = ev, !.axis = axis]
    /\ evAccepted' = "-"
    /\ UNCHANGED <<stackedViews, connected, axHistory, axHistoryPointer, geometry,
                   pluginVars>>

mouseDragEvent(ev, axis) ==
    /\ log' = PointerHandlerTrace("super.mouseDragEvent", "sigMouseDragged.emit", Top, ev, axis)
    /\ last' = [NoHandler EXCEPT !.h = "mouseDragEvent", !.ev = ev, !.axis = axis]
    /\ evAccepted' = "-"
    /\ UNCHANGED <<stackedViews, connected, axHistory, axHistoryPointer, geometry,
                   pluginVars>>

----------------------------------------------------------------------------
\* updateStackedViews

\* ViewsToUpdate looping over the connected views only.
ViewsToUpdateConnected == connected

\* The views the loop of line 39 visits.
ViewsToUpdate == stackedViews

\* sceneBoundingRect() of a view whose geometry is g: g in scene coordinates.
SceneBoundingRect(g) == IF g = "g0" THEN "scene-g0" ELSE "scene-g1"

\* Lines 40-41 for one view.
UpdateOne(v, rect) ==
    <<[Entry("setGeometry", v) EXCEPT !.ev = rect],
      [Entry("linkedViewChanged", v) EXCEPT !.axis = "XAxis"]>>

\* The top-level view is resized to rect g: sigResized runs updateStackedViews.
updateStackedViews(g) ==
    /\ g # geometry[Top]
    /\ geometry' = [v \in Live |->
                       IF v = Top THEN g
                       ELSE IF v \in ViewsToUpdate THEN SceneBoundingRect(g)
                       ELSE geometry[v]]
    /\ log' = Concat([i \in 1..Len(Ascending(ViewsToUpdate)) |->
                         UpdateOne(Ascending(ViewsToUpdate)[i], SceneBoundingRect(g))])
    /\ last' = [NoHandler EXCEPT !.h = "updateStackedViews", !.ev = g]
    /\ evAccepted' = "-"
    /\ UNCHANGED <<stackedViews, connected, axHistory, axHistoryPointer, pluginVars>>

\* A stacked view is garbage collected: the WeakSet and the signals drop it.
ViewCollected(v) ==
    /\ v \in stackedViews
    /\ stackedViews' = stackedViews \ {v}
    /\ connected' = connected \ {v}
    /\ axHistory' = [w \in Live \ {v} |-> axHistory[w]]
    /\ axHistoryPointer' = [w \in Live \ {v} |-> axHistoryPointer[w]]
    /\ geometry' = [w \in Live \ {v} |-> geometry[w]]
    /\ last' = [NoHandler EXCEPT !.h = "collected"]
    /\ log' = <<>>
    /\ evAccepted' = "-"
    /\ UNCHANGED pluginVars

----------------------------------------------------------------------------
\* The specification of the view boxes.

\* A history of n recorded rectangles, each a distinct rectangle.
HistoryOf(n) == [i \in 1..n |-> i]

\* The geometry every view is constructed with.
InitialGeometry == "g0"

PluginUnloaded ==
    /\ environ = "<unset>"
    /\ EPICS_LIB = "<unread>"
    /\ importResult = [m \in PluginModules |-> "ok"]
    /\ EPICSPlugin = "<unbound>"
    /\ protocol = [b \in Backends |-> "<unset>"]
    /\ loadState = "unloaded"
    /\ imports = <<>>
    /\ assignments = 0

Init ==
    /\ stackedViews \in SUBSET Stacked
    /\ connected \in SUBSET stackedViews
    /\ axHistory \in [Live -> {HistoryOf(n) : n \in 0..MaxHist}]
    /\ axHistoryPointer \in [Live -> -1..(MaxHist - 1)]
    /\ \A v \in Live : axHistoryPointer[v] <= Len(axHistory[v]) - 1
    /\ geometry = [v \in Live |-> InitialGeometry]
    /\ last = NoHandler
    /\ evAccepted = "-"
    /\ log = <<>>
    /\ PluginUnloaded

Next ==
    \/ \E d \in Deltas : scaleHistory(d)
    \/ \E ev \in KeyEvents : keyPressEvent(ev)
    \/ \E ev \in Events, axis \in Axes : wheelEvent(ev, axis)
    \/ \E ev \in Events, axis \in Axes : mouseDragEvent(ev, axis)
    \/ \E g \in Geoms : updateStackedViews(g)
    \/ \E v \in Stacked : ViewCollected(v)

Spec == Init /\ [][Next]_vars

----------------------------------------------------------------------------
\* Properties of the view boxes, checked under Spec.

\* The places in the trace where view v did op.
At(op, v) == {i \in DOMAIN log : log[i].op = op /\ log[i].view = v}

\* The key event handled last.
LastKey == [text |-> last.text, key |-> last.key]

\* The handler that ran last called the top-level view's scaleHistory(d).
Navigated(d) ==
    \/ last.h = "scaleHistory" /\ last.d = d
    \/ last.h = "keyPressEvent" /\ KeyCalls(LastKey) = <<d>>

PointerInRange(v) ==
    /\ -1 <= axHistoryPointer[v]
    /\ axHistoryPointer[v] <= Len(axHistory[v]) - 1

\* View v's pointer is at the end that scaleHistory(d) moves towards.
AtEnd(v, d) ==
    \/ d = -1 /\ axHistoryPointer[v] = -1
    \/ d = 1 /\ axHistoryPointer[v] = Len(axHistory[v]) - 1

\* C1: history navigation clamps at both ends.  The pointer of every view
\* stays between -1 and len(axHistory) - 1 whatever scaleHistory calls and
\* key presses are made, and a scaleHistory(-1) at pointer -1 or a
\* scaleHistory(1) at pointer len(axHistory) - 1 leaves the pointer as it was.
C1_PointerClamped ==
    /\ [](\A v \in Live : PointerInRange(v))
    /\ [][\A d \in {-1, 1} :
            Navigated(d)' =>
                \A v \in Reached(Top) :
                    AtEnd(v, d) => axHistoryPointer'[v] = axHistoryPointer[v]]_vars

\* C1 witness: scaleHistory(1) ran with the top-level pointer already at the
\* last entry of a non-empty history, and no pointer was assigned.
C1_Witness ==
    /\ last.h = "scaleHistory" /\ last.d = 1
    /\ Len(axHistory[Top]) = MaxHist
    /\ axHistoryPointer[Top] = Len(axHistory[Top]) - 1
    /\ At("axHistoryPointer=", Top) = {}
    /\ At("showAxRect", Top) # {}

\* C2: every call of scaleHistory(d) emits sigHistoryChanged exactly once
\* with the same d, whether or not the pointer moves (empty history, clamped
\* pointer, d = 0 at pointer -1), and the emission comes before the view's
\* pointer is assigned.  In the trace: a call is followed at once by the
\* caller's emission of the same d, a view emits as often as it is called,
\* every pointer assignment of a view comes after its emission, and a
\* handler that calls scaleHistory(d) of the top-level view has exactly one
\* emission of the top-level view, which carries d.
C2_EmitsOnceBeforeUpdate ==
    /\ \A i \in DOMAIN log :
          log[i].op = "scaleHistory" =>
              /\ i + 1 \in DOMAIN log
              /\ log[i + 1] = [log[i] EXCEPT !.op = "sigHistoryChanged.emit"]
    /\ \A v \in Live :
          /\ Cardinality(At("sigHistoryChanged.emit", v)) = Cardinality(At("scaleHistory", v))
          /\ \A i \in At("axHistoryPointer=", v) :
                \E j \in At("sigHistoryChanged.emit", v) : j < i
    /\ \A d \in Deltas :
          Navigated(d) =>
              /\ Cardinality(At("sigHistoryChanged.emit", Top)) = 1
              /\ \A i \in At("sigHistoryChanged.emit", Top) : log[i].d = d

\* C2 witness: scaleHistory(d) of a top-level view with an empty history
\* emitted once; the stacked view it reached emitted and then moved its pointer.
C2_Witness ==
    /\ last.h = "scaleHistory"
    /\ Len(axHistory[Top]) = 0
    /\ Cardinality(At("sigHistoryChanged.emit", Top)) = 1
    /\ \E v \in connected : At("axHistoryPointer=", v) # {}

\* C3: keyPressEvent maps '-' to scaleHistory(-1), '+' and '=' to
\* scaleHistory(1) and Backspace to scaleHistory(0), one call each, and the
\* event ends accepted; for any other key the event ends ignored,
\* scaleHistory is not called, nothing is emitted and no pointer changes.
C3_Expected(ev) ==
    IF ev.text = "-" THEN <<-1>>
    ELSE IF ev.text = "+" \/ ev.text = "=" THEN <<1>>
    ELSE IF ev.key = "Key_Backspace" THEN <<0>>
    ELSE <<>>

C3_KeyMapping ==
    /\ [](last.h = "keyPressEvent" =>
            LET want == C3_Expected(LastKey)
            IN  IF want # <<>>
                THEN /\ evAccepted = "accepted"
                     /\ Cardinality(At("scaleHistory", Top)) = 1
                     /\ \A i \in At("scaleHistory", Top) : log[i].d = want[1]
                     /\ At("ev.ignore", Top) = {}
                ELSE /\ evAccepted = "ignored"
                     /\ \A i \in DOMAIN log :
                           log[i].op \notin {"scaleHistory", "sigHistoryChanged.emit",
                                             "axHistoryPointer="})
    /\ [][(last'.h = "keyPressEvent" /\ C3_Expected(LastKey') = <<>>) =>
              axHistoryPointer' = axHistoryPointer]_vars

\* C3 witness: '=' was pressed and moved the top-level pointer forward.
C3_Witness ==
    /\ last.h = "keyPressEvent" /\ last.text = "="
    /\ evAccepted = "accepted"
    /\ \E i \in At("axHistoryPointer=", Top) : log[i].d = 1

\* C4: a wheelEvent or mouseDragEvent with axis None emits its signal
\* (sigMouseWheelZoomed, sigMouseDragged) exactly once with the same event
\* and axis, the superclass's handler runs exactly once, and the emission
\* comes first.
C4_SignalOf(h) ==
    IF h = "wheelEvent" THEN "sigMouseWheelZoomed.emit" ELSE "sigMouseDragged.emit"

C4_SuperOf(h) ==
    IF h = "wheelEvent" THEN "super.wheelEvent" ELSE "super.mouseDragEvent"

C4_EmitBeforeDefault ==
    (last.h \in {"wheelEvent", "mouseDragEvent"} /\ last.axis = "None") =>
        /\ Cardinality(At(C4_SignalOf(last.h), Top)) = 1
        /\ Cardinality(At(C4_SuperOf(last.h), Top)) = 1
        /\ \A i \in At(C4_SignalOf(last.h), Top) :
              /\ log[i].ev = last.ev /\ log[i].axis = "None"
              /\ \A j \in At(C4_SuperOf(last.h), Top) :
                    i < j /\ log[j].ev = last.ev /\ log[j].axis = "None"

\* C4 witness: a drag in the view box area was emitted, handled by a stacked
\* view, and then handled by the superclass of the top-level view.
C4_Witness ==
    /\ last.h = "mouseDragEvent" /\ last.axis = "None" /\ last.ev = "ev2"
    /\ connected # {}
    /\ Len(log) >= 4
    /\ log[1].op = "sigMouseDragged.emit" /\ log[1].view = Top
    /\ log[Len(log)].op = "super.mouseDragEvent" /\ log[Len(log)].view = Top

\* C9: on a geometry change of the top-level view, updateStackedViews gives
\* every view in stackedViews the top-level view's scene bounding rectangle
\* and re-links its X axis, once each and skipping none; with no stacked
\* view it does nothing.
C9_AllStackedUpdated ==
    last.h = "updateStackedViews" =>
        /\ \A v \in stackedViews :
              /\ geometry[v] = SceneBoundingRect(geometry[Top])
              /\ Cardinality(At("setGeometry", v)) = 1
              /\ Cardinality(At("linkedViewChanged", v)) = 1
              /\ \A i \in At("setGeometry", v) :
                    /\ log[i].ev = SceneBoundingRect(geometry[Top])
                    /\ log[i + 1].op = "linkedViewChanged"
                    /\ log[i + 1].view = v
                    /\ log[i + 1].axis = "XAxis"
        /\ Len(log) = 2 * Cardinality(stackedViews)

\* C9 witness: a resize updated a stacked view that is not connected to the
\* top-level view's signals.
C9_Witness ==
    /\ last.h = "updateStackedViews"
    /\ \E v \in stackedViews \ connected :
          /\ geometry[Top] = "g1"
          /\ geometry[v] = "scene-g1"
          /\ At("setGeometry", v) # {}

\* C10: history stays synchronized.  When every stacked view is connected
\* and all views have the same history length and the same pointer, a key
\* press on the top-level view leaves them so: every stacked view's pointer
\* equals the top-level view's when the handler returns.
Synchronized ==
    /\ connected = stackedViews
    /\ \A v \in stackedViews :
          /\ Len(axHistory[v]) = Len(axHistory[Top])
          /\ axHistoryPointer[v] = axHistoryPointer[Top]

C10_HistorySynchronized ==
    [][(Synchronized /\ last'.h = "keyPressEvent") => Synchronized']_vars

\* C10 witness: a key press moved the pointers of the top-level view and of
\* a stacked view together, off the auto-range position.
C10_Witness ==
    /\ last.h = "keyPressEvent"
    /\ stackedViews # {}
    /\ Synchronized
    /\ axHistoryPointer[Top] = MaxHist - 1
    /\ \A v \in Live : At("axHistoryPointer=", v) # {}

NavigatedAny == \E d \in Deltas : Navigated(d)

\* C12: scaleHistory has no effect if there is no history yet.  A call
\* scaleHistory(d), for any d, of a view whose axHistory is empty leaves its
\* axHistoryPointer as it was and invokes neither enableAutoRange nor
\* showAxRect on it.
C12_NoHistoryNoEffect ==
    /\ [](NavigatedAny =>
            \A v \in Reached(Top) :
                Len(axHistory[v]) = 0 =>
                    /\ At("enableAutoRange", v) = {}
                    /\ At("showAxRect", v) = {}
                    /\ At("axHistoryPointer=", v) = {})
    /\ [][NavigatedAny' =>
            \A v \in Reached(Top) :
                Len(axHistory[v]) = 0 => axHistoryPointer'[v] = axHistoryPointer[v]]_vars

\* C12 witness: '+' was pressed on a top-level view with no history; the
\* call was made and emitted, and that is all the trace holds for the view.
C12_Witness ==
    /\ last.h = "keyPressEvent" /\ last.text = "+"
    /\ Len(axHistory[Top]) = 0
    /\ axHistoryPointer[Top] = -1
    /\ At("scaleHistory", Top) # {}
    /\ At("sigHistoryChanged.emit", Top) # {}
    /\ \E v \in connected : At("showAxRect", v) # {}

\* The range calls the trace holds for view v.
RangeCalls(v) == At("enableAutoRange", v) \cup At("showAxRect", v)

\* C14: pointer value -1 means auto-range.  After a scaleHistory(d) call of
\* a view with a non-empty history, for any d, exactly one range call was
\* made on the view and it matches the pointer the view now has:
\* enableAutoRange if and only if the pointer is -1, otherwise showAxRect
\* with axHistory[axHistoryPointer]; this also when the pointer did not
\* move.  scaleHistory(0) ends with pointer -1 and auto-range.
C14_RangeMatchesPointer ==
    NavigatedAny =>
        \A v \in Reached(Top) :
            Len(axHistory[v]) # 0 =>
                /\ Cardinality(RangeCalls(v)) = 1
                /\ At("enableAutoRange", v) # {} <=> axHistoryPointer[v] = -1
                /\ \A i \in At("showAxRect", v) :
                      /\ axHistoryPointer[v] \in 0..(Len(axHistory[v]) - 1)
                      /\ log[i].rect = axHistory[v][axHistoryPointer[v] + 1]
                /\ Navigated(0) =>
                      axHistoryPointer[v] = -1 /\ At("enableAutoRange", v) # {}

\* C14 witness: scaleHistory(2), which moves no pointer, showed the last
\* recorded rectangle again.
C14_Witness ==
    /\ last.h = "scaleHistory" /\ last.d = 2
    /\ Len(axHistory[Top]) = MaxHist
    /\ axHistoryPointer[Top] = MaxHist - 1
    /\ At("axHistoryPointer=", Top) = {}
    /\ \E i \in At("showAxRect", Top) : log[i].rect = axHistory[Top][MaxHist]

C17_Then(v, d) == NewPointer(axHistory'[v], axHistoryPointer'[v], d)

C17_ForwardBackwardInverse ==
    [][\A v \in Reached(Top) :
          Len(axHistory[v]) # 0 =>
              /\ (Navigated(1)' /\ axHistoryPointer[v] < Len(axHistory[v]) - 1) =>
                    /\ axHistoryPointer'[v] = axHistoryPointer[v] + 1
                    /\ C17_Then(v, -1) = axHistoryPointer[v]
              /\ (Navigated(-1)' /\ axHistoryPointer[v] >= 0) =>
                    /\ axHistoryPointer'[v] = axHistoryPointer[v] - 1
                    /\ C17_Then(v, 1) = axHistoryPointer[v]
              /\ Navigated(0)' => C17_Then(v, 0) = axHistoryPointer'[v]]_vars

\* C17 witness: '-' took the top-level pointer from 0 to -1, from where
\* scaleHistory(1) leads back to 0.
C17_Witness ==
    /\ last.h = "keyPressEvent" /\ last.text = "-"
    /\ Len(axHistory[Top]) # 0
    /\ axHistoryPointer[Top] = -1
    /\ \E i \in At("axHistoryPointer=", Top) : log[i].d = -1
    /\ NewPointer(axHistory[Top], axHistoryPointer[Top], 1) = 0

\* C18: history navigation never modifies the recorded history.
\* keyPressEvent, for any key, and scaleHistory, for any d, leave axHistory
\* (every view's, its length and every rectangle) and stackedViews as they
\* were.
C18_HistoryUntouched ==
    [][last'.h \in {"keyPressEvent", "scaleHistory"} =>
          /\ axHistory' = axHistory
          /\ stackedViews' = stackedViews]_vars

\* C18 witness: Backspace reset the pointers of a top-level view and a
\* stacked view that both still hold their full history.
C18_Witness ==
    /\ last.h = "keyPressEvent" /\ last.key = "Key_Backspace"
    /\ stackedViews = connected /\ stackedViews # {}
    /\ \A v \in Live :
          /\ axHistory[v] = HistoryOf(MaxHist)
          /\ axHistoryPointer[v] = -1
          /\ \E i \in At("axHistoryPointer=", v) : log[i].d = -1

----------------------------------------------------------------------------
\* epics_plugin.py: the load of the module.

ModuleOf(backend) == IF backend = "PSPPlugin" THEN "psp_plugin" ELSE "pyepics_plugin"

\* What the load has done so far.
LoadStart == [alias |-> "<unbound>", state |-> "running", imports |-> <<>>, assignments |-> 0]

\* ImportAndBind with a failed import swallowed.
ImportAndBindSwallowing(st, backend) ==
    LET m == ModuleOf(backend)
        tried == [st EXCEPT !.imports = Append(st.imports, m)]
    IN  IF importResult[m] = "ok"
        THEN [tried EXCEPT !.alias = backend, !.assignments = st.assignments + 1]
        ELSE tried

\* "from .<module> import <backend>; EPICSPlugin = <backend>" (lines 8-9,
\* 11-12, 15-16, 18-19): the import raises, or the alias is assigned.
ImportAndBind(st, backend) ==
    LET m == ModuleOf(backend)
        tried == [st EXCEPT !.imports = Append(st.imports, m)]
    IN  IF importResult[m] = "ok"
        THEN [tried EXCEPT !.alias = backend, !.assignments = st.assignments + 1]
        ELSE [tried EXCEPT !.state = importResult[m]]

\* TryFasterFirst with a bare except: any failure of pyca falls back.
TryFasterFirstBareExcept(st) ==
    LET first == ImportAndBind(st, "PSPPlugin")
    IN  IF first.state # "running"
        THEN ImportAndBind([first EXCEPT !.state = "running"], "PyEPICSPlugin")
        ELSE first

\* TryFasterFirst with the fallback outside the except clause: pyepics is
\* imported and bound after pyca, whether or not pyca was.
TryFasterFirstThenSlower(st) ==
    LET first == ImportAndBind(st, "PSPPlugin")
    IN  IF first.state \in {"running", "ImportError"}
        THEN ImportAndBind([first EXCEPT !.state = "running"], "PyEPICSPlugin")
        ELSE first

\* Lines 14-19: pyca first, pyepics when importing pyca raises ImportError.
TryFasterFirst(st) ==
    LET first == ImportAndBind(st, "PSPPlugin")
    IN  IF first.state = "ImportError"
        THEN ImportAndBind([first EXCEPT !.state = "running"], "PyEPICSPlugin")
        ELSE first

\* SelectBackend without the pyca branch: "pyca" is treated as no override.
SelectBackendNoPycaBranch(lib) ==
    IF lib = "pyepics" THEN ImportAndBind(LoadStart, "PyEPICSPlugin")
    ELSE TryFasterFirst(LoadStart)

\* SelectBackend comparing the override without regard to case.
SelectBackendAnyCase(lib) ==
    IF lib \in {"pyepics", "PYEPICS"} THEN ImportAndBind(LoadStart, "PyEPICSPlugin")
    ELSE IF lib \in {"pyca", "PYCA"} THEN ImportAndBind(LoadStart, "PSPPlugin")
    ELSE TryFasterFirst(LoadStart)

\* Lines 7-19: the choice of the backend.
SelectBackend(lib) ==
    IF lib = "pyepics" THEN ImportAndBind(LoadStart, "PyEPICSPlugin")
    ELSE IF lib = "pyca" THEN ImportAndBind(LoadStart, "PSPPlugin")
    ELSE TryFasterFirst(LoadStart)

\* SetProtocol with the assignment left out.
SetProtocolSkipped(alias) == protocol

\* Line 20: the protocol tag, set on the class the alias names.
SetProtocol(alias) == [protocol EXCEPT ![alias] = "ca"]

\* The import of pydm.data_plugins.epics_plugin: the module body runs
\* unless an earlier import completed (a failed import is run again).
LoadModule ==
    /\ loadState # "loaded"
    /\ EPICS_LIB' = environ
    /\ LET st == SelectBackend(environ)
       IN  /\ EPICSPlugin' = st.alias
           /\ imports' = st.imports
           /\ assignments' = st.assignments
           /\ IF st.state = "running"
              THEN /\ protocol' = SetProtocol(st.alias)
                   /\ loadState' = "loaded"
              ELSE /\ protocol' = protocol
                   /\ loadState' = st.state
    /\ UNCHANGED <<environ, importResult, viewVars>>

\* The process changes PYDM_EPICS_LIB in its environment, which line 6
\* reads only when the module body runs.
SetEnviron(value) ==
    /\ value # environ
    /\ environ' = value
    /\ UNCHANGED <<EPICS_LIB, importResult, EPICSPlugin, protocol, loadState,
                   imports, assignments, viewVars>>

\* The selector is loaded in a process with any environment and any
\* installation; the view box is a lone top-level view.
InitPlugin ==
    /\ environ \in EnvValues
    /\ EPICS_LIB = "<unread>"
    /\ importResult \in [PluginModules -> ImportResults]
    /\ protocol \in [Backends -> {"<unset>", "ca"}]
    /\ EPICSPlugin = "<unbound>"
    /\ loadState = "unloaded"
    /\ imports = <<>>
    /\ assignments = 0
    /\ stackedViews = {}
    /\ connected = {}
    /\ axHistory = [v \in {Top} |-> <<>>]
    /\ axHistoryPointer = [v \in {Top} |-> -1]
    /\ geometry = [v \in {Top} |-> InitialGeometry]
    /\ last = NoHandler
    /\ evAccepted = "-"
    /\ log = <<>>

NextPlugin ==
    \/ LoadModule
    \/ \E value \in EnvValues : SetEnviron(value)

SpecPlugin == InitPlugin /\ [][NextPlugin]_vars

----------------------------------------------------------------------------
\* Properties of the backend selector, checked under SpecPlugin.

LoadEnded == loadState # "unloaded"

\* C5: with PYDM_EPICS_LIB unset, EPICSPlugin is PSPPlugin whenever psp_plugin
\* can be imported, and is PyEPICSPlugin if and only if importing psp_plugin
\* raises ImportError and pyepics_plugin can be imported.
C5_DefaultPrefersFaster ==
    (LoadEnded /\ EPICS_LIB = "<unset>") =>
        /\ importResult["psp_plugin"] = "ok" => EPICSPlugin = "PSPPlugin"
        /\ EPICSPlugin = "PyEPICSPlugin" <=>
              /\ importResult["psp_plugin"] = "ImportError"
              /\ importResult["pyepics_plugin"] = "ok"

\* C5 witness: with the variable unset and pyca missing, the load fell back
\* to PyEPICSPlugin after trying psp_plugin.
C5_Witness ==
    /\ loadState = "loaded" /\ EPICS_LIB = "<unset>"
    /\ importResult["psp_plugin"] = "ImportError"
    /\ EPICSPlugin = "PyEPICSPlugin"
    /\ imports = <<"psp_plugin", "pyepics_plugin">>

\* C6: an override forces its backend with no fallback.  With "pyepics" the
\* alias is PyEPICSPlugin and with "pyca" it is PSPPlugin, also when the
\* other backend can be imported; if the forced backend cannot be imported
\* the load ends with that import's error, no alias is bound, and only the
\* forced backend's module was ever imported.
C6_Forced(lib, backend) ==
    (LoadEnded /\ EPICS_LIB = lib) =>
        /\ imports = <<ModuleOf(backend)>>
        /\ IF importResult[ModuleOf(backend)] = "ok"
           THEN loadState = "loaded" /\ EPICSPlugin = backend
           ELSE /\ loadState = importResult[ModuleOf(backend)]
                /\ EPICSPlugin = "<unbound>"

C6_OverrideForces ==
    /\ C6_Forced("pyepics", "PyEPICSPlugin")
    /\ C6_Forced("pyca", "PSPPlugin")

\* C6 witness: "pyca" was forced, psp_plugin could not be imported, and the
\* load failed although pyepics_plugin was available.
C6_Witness ==
    /\ EPICS_LIB = "pyca"
    /\ importResult = [m \in PluginModules |->
                          IF m = "psp_plugin" THEN "ImportError" ELSE "ok"]
    /\ loadState = "ImportError"
    /\ EPICSPlugin = "<unbound>"
    /\ imports = <<"psp_plugin">>

\* C7: if neither backend is installed, the load ends in an import failure
\* for every value of PYDM_EPICS_LIB: no alias is bound and no protocol
\* attribute is assigned.
NeitherInstalled == \A m \in PluginModules : importResult[m] = "ImportError"

C7_NoBackendFails ==
    /\ []((LoadEnded /\ NeitherInstalled) =>
             loadState = "ImportError" /\ EPICSPlugin = "<unbound>" /\ assignments = 0)
    /\ [][NeitherInstalled => protocol' = protocol]_vars

\* C7 witness: an unsupported override, neither backend installed: both
\* imports were tried and the load failed.
C7_Witness ==
    /\ EPICS_LIB = "epics"
    /\ NeitherInstalled
    /\ loadState = "ImportError"
    /\ imports = <<"psp_plugin", "pyepics_plugin">>
    /\ protocol = [b \in Backends |-> "<unset>"]

\* C8: whenever the load succeeds, EPICSPlugin is one of the two backends
\* and its protocol attribute is "ca".
C8_AliasHasProtocol ==
    loadState = "loaded" =>
        /\ EPICSPlugin \in Backends
        /\ protocol[EPICSPlugin] = "ca"

\* C8 witness: a load bound PSPPlugin and tagged it "ca", while the other
\* backend's class has no protocol attribute.
C8_Witness ==
    /\ loadState = "loaded"
    /\ EPICSPlugin = "PSPPlugin"
    /\ protocol["PSPPlugin"] = "ca"
    /\ protocol["PyEPICSPlugin"] = "<unset>"

\* C13: the alias is resolved once at load time and is immutable afterward.
\* A load assigns EPICSPlugin at most once, exactly once when it binds the
\* alias, and once bound the alias names the same backend in every later
\* state, whatever the environment is changed to and however often the
\* module is imported again.
C13_ResolvedOnce ==
    /\ [](/\ assignments <= 1
          /\ EPICSPlugin \in Backends <=> assignments = 1
          /\ loadState = "loaded" => assignments = 1)
    /\ [][EPICSPlugin # "<unbound>" => EPICSPlugin' = EPICSPlugin]_vars

\* C13 witness: the load bound PSPPlugin under "pyca"; the environment now
\* says "pyepics" and the alias is still PSPPlugin.
C13_Witness ==
    /\ loadState = "loaded"
    /\ EPICS_LIB = "pyca" /\ environ = "pyepics"
    /\ importResult["pyepics_plugin"] = "ok"
    /\ EPICSPlugin = "PSPPlugin"
    /\ assignments = 1

\* C16: a value of PYDM_EPICS_LIB other than "pyepics" and "pyca" (the
\* empty string and other spellings included) is treated exactly like an
\* unset variable: whatever the backends' availability, the load ends as it
\* does with the variable unset, with the same alias or the same failure
\* after the same imports.
C16_Outcome == [alias |-> EPICSPlugin,
                state |-> IF loadState = "loaded" THEN "running" ELSE loadState,
                imports |-> imports,
                assignments |-> assignments]

C16_UnsupportedLikeUnset ==
    (LoadEnded /\ EPICS_LIB \notin {"pyepics", "pyca"}) =>
        /\ C16_Outcome = SelectBackend("<unset>")
        /\ Head(imports) = "psp_plugin"
        /\ EPICSPlugin \in Backends => protocol[EPICSPlugin] = "ca"

\* C16 witness: with "PYCA" and pyca missing the load fell back to
\* PyEPICSPlugin, as it does with the variable unset and as "pyca" does not.
C16_Witness ==
    /\ loadState = "loaded" /\ EPICS_LIB = "PYCA"
    /\ importResult["psp_plugin"] = "ImportError"
    /\ EPICSPlugin = "PyEPICSPlugin"
    /\ imports = <<"psp_plugin", "pyepics_plugin">>

=============================================================================
